---- MODULE Spec2Model ----
(***************************************************************************)
(* digiHousing_apis: the generic record store (database/crud.py), the      *)
(* audit recorder (audit_track/audit_log.py), the authorization gates      *)
(* (security.py) and the endpoints that call them (routes/*.py).           *)
(*                                                                         *)
(* Every request runs on its own SQLAlchemy session.  A request is a       *)
(* process that moves through the statements of its handler; every step    *)
(* that ends in db.commit() is one atomic step of the model, and other     *)
(* requests may run between two steps.                                     *)
(***************************************************************************)
EXTENDS Integers, Sequences, FiniteSets, TLC

VARIABLES
    tables,     \* model name -> (id -> row); a row maps column name -> value
    users,      \* id -> [email_id, role_id]       (UserDbModel)
    seq,        \* model name -> next value of the id sequence
    now,        \* the database clock, func.now()
    slot,       \* request slot -> the request it is serving
    calls       \* number of requests started so far

vars == <<tables, users, seq, now, slot, calls>>

\* Bounds of the model.
NumSlots == 2
MaxCalls == 3

Slots == 1..NumSlots

(***************************************************************************)
(* Python values.  A value carries its Python type: json.dumps and the     *)
(* database driver both dispatch on it.                                    *)
(***************************************************************************)
StrV(s) == [t |-> "str", v |-> s]
IntV(n) == [t |-> "int", v |-> ToString(n)]
NoneV == [t |-> "NoneType", v |-> "None"]
BoolV(b) == [t |-> "bool", v |-> IF b THEN "True" ELSE "False"]
DatetimeV(n) == [t |-> "datetime", v |-> ToString(n)]
DictV == [t |-> "dict", v |-> "{}"]
SetV == [t |-> "set", v |-> "{1}"]
TypeError == [t |-> "TypeError", v |-> "not serializable"]

EmptyMap == [k \in {} |-> NoneV]

\* datetime.isoformat()
isoformat(obj) == "T" \o obj.v

\* crud.py json_serial: the `default` hook of json.dumps
json_serial(obj) ==
    IF obj.t = "datetime" THEN StrV(isoformat(obj)) ELSE TypeError

\* The types json.dumps encodes without calling `default`.
JsonNative(obj) == obj.t \in {"str", "int", "NoneType", "bool", "dict"}

\* What json.dumps makes of one value of the mapping.
JsonEncode(obj, withDefault) ==
    IF JsonNative(obj) THEN obj
    ELSE IF withDefault THEN json_serial(obj)
    ELSE TypeError

\* json.dumps(m) / json.dumps(m, default=json_serial) raises TypeError
JsonRaises(m, withDefault) ==
    \E k \in DOMAIN m : JsonEncode(m[k], withDefault).t = "TypeError"

\* json.loads(json.dumps(m, default=json_serial)): the mapping with every
\* value in its JSON form
JsonRoundTrip(m) == [k \in DOMAIN m |-> JsonEncode(m[k], TRUE)]

\* json.dumps(m): the JSON text of a mapping
JsonText(m) == ToString([k \in DOMAIN m |-> JsonEncode(m[k], FALSE)])

(***************************************************************************)
(* The schema, database_models.py                                          *)
(***************************************************************************)
Models == {"amenities", "roles", "audit_logs", "queries"}

Columns(model) ==
    CASE model = "amenities" ->
            {"id", "name", "description", "created_by_user",
             "created_at", "updated_at"}
      [] model = "roles" ->
            {"id", "name", "description", "created_at", "updated_at"}
      [] model = "audit_logs" ->
            {"id", "table_name", "record_id", "changed_by",
             "old_values", "new_values", "timestamp"}
      [] model = "queries" ->
            {"id", "user_phonenumber", "user_name", "query_type",
             "property_type_id", "property_config_id", "property_address_id",
             "amenities_id", "contacted", "resolution",
             "created_at", "updated_at"}

\* Class attributes that are not columns (relationships, methods).
OtherAttributes(model) ==
    CASE model = "amenities" -> {"user", "to_dict"}
      [] model = "roles" -> {"users"}
      [] model = "audit_logs" -> {}
      [] model = "queries" -> {"to_dict"}

ColumnType(c) ==
    IF c \in {"id", "created_by_user", "record_id", "changed_by",
              "property_type_id", "property_config_id",
              "property_address_id", "amenities_id"}
        THEN "Integer"
    ELSE IF c = "contacted" THEN "Boolean"
    ELSE IF c \in {"created_at", "updated_at", "timestamp"} THEN "TIMESTAMP"
    ELSE "String"

\* nullable=False (and the primary key)
NotNull(model) ==
    CASE model = "amenities" -> {"id", "created_by_user"}
      [] model = "roles" -> {"id"}
      [] model = "audit_logs" ->
            {"id", "table_name", "record_id", "changed_by",
             "old_values", "new_values", "timestamp"}
      [] model = "queries" ->
            {"id", "user_phonenumber", "user_name", "query_type",
             "property_type_id", "property_config_id"}

\* unique=True
UniqueColumns(model) ==
    IF model \in {"amenities", "roles"} THEN {"name"} ELSE {}

\* ForeignKey("users.id")
UserKeys(model) ==
    CASE model = "amenities" -> {"created_by_user"}
      [] model = "roles" -> {}
      [] model = "audit_logs" -> {"changed_by"}
      [] model = "queries" -> {}

\* Column(default=func.now())
ColumnDefault(model, c) ==
    IF c = "id" THEN IntV(seq[model])
    ELSE IF c \in {"created_at", "updated_at", "timestamp"}
        THEN DatetimeV(now)
    ELSE NoneV

\* The driver can bind the value to a column of that type.
Binds(c, obj) ==
    \/ obj.t = "NoneType"
    \/ ColumnType(c) = "Integer" /\ obj.t = "int"
    \/ ColumnType(c) = "String" /\ obj.t = "str"
    \/ ColumnType(c) = "Boolean" /\ obj.t = "bool"
    \/ ColumnType(c) = "TIMESTAMP" /\ obj.t = "datetime"

\* The constraints of the table hold for `row` stored under `id`.
ConstraintsHold(model, id, row) ==
    /\ \A c \in Columns(model) : Binds(c, row[c])
    /\ \A c \in NotNull(model) : row[c] # NoneV
    /\ \A c \in UniqueColumns(model) :
          row[c] # NoneV =>
             \A j \in DOMAIN tables[model] \ {id} : tables[model][j][c] # row[c]
    /\ \A c \in UserKeys(model) :
          row[c] # NoneV => \E u \in DOMAIN users : row[c] = IntV(u)

\* users.role_id references roles.id: a role some user has cannot be deleted
Referenced(model, id) ==
    model = "roles" /\ \E u \in DOMAIN users : users[u].role_id = id

(***************************************************************************)
(* Requests                                                                *)
(***************************************************************************)
IdleSlot ==
    [pc |-> "idle", route |-> "none", op |-> "none", model |-> "none",
     token |-> "none", id |-> 0, data |-> EmptyMap, user |-> 0,
     record |-> EmptyMap, old_values |-> EmptyMap,
     raised |-> "none", status |-> 0, result |-> 0,
     \* history of the call, read by the properties only:
     \*   committed  it has committed a change of a row of its table
     \*   inserted   the ids of the rows it has inserted
     \*   before     the row as it was when the UPDATE or DELETE reached it
     \*   entries    the ids of the audit_logs rows it has added
     committed |-> FALSE, inserted |-> {}, before |-> EmptyMap,
     entries |-> {}, serial |-> 0]

Free(s) == slot[s].pc \in {"idle", "done"}

\* A call of create_record / update_record / delete_record as the routes
\* make it: crud.py runs from its first statement.
CrudCall(route, op, model, id, data, user) ==
    [IdleSlot EXCEPT !.pc = IF op = "create" THEN "row" ELSE "read",
                     !.route = route, !.op = op, !.model = model,
                     !.id = id, !.data = data, !.user = user]

\* db.rollback(): the session drops what it has not committed.  Nothing
\* uncommitted is ever visible in `tables`, and what db.commit() wrote stays.
db_rollback == UNCHANGED <<tables, users, seq, now>>

\* `except Exception as e: db.rollback(); raise HTTPException(500, ...)`
\* It also catches the HTTPException(404) raised inside the try block.
ExceptHandlerStatus(raised) == 500

RaiseInTry(s, raised) ==
    /\ db_rollback
    /\ slot' = [slot EXCEPT ![s].pc = "done", ![s].raised = raised,
                            ![s].status = ExceptHandlerStatus(raised)]

\* audit_log.py add_audit_log: the row it adds
AuditLogsDbModel(table_name, record_id, changed_by, old_values, new_values) ==
    [c \in Columns("audit_logs") |->
        CASE c = "table_name" -> StrV(table_name)
          [] c = "record_id" -> IntV(record_id)
          [] c = "changed_by" -> IntV(changed_by)
          [] c = "old_values" -> StrV(JsonText(old_values))
          [] c = "new_values" -> StrV(JsonText(new_values))
          [] OTHER -> ColumnDefault("audit_logs", c)]

\* add_audit_log raises: json.dumps of a value that is no JSON type, or the
\* INSERT breaks a constraint of audit_logs.
AddAuditLogRaises(table_name, record_id, changed_by, old_values, new_values) ==
    \/ JsonRaises(old_values, FALSE)
    \/ JsonRaises(new_values, FALSE)
    \/ ~ConstraintsHold("audit_logs", seq["audit_logs"],
            AuditLogsDbModel(table_name, record_id, changed_by,
                             old_values, new_values))

\* add_audit_log without its db.add(audit_log)
add_audit_log_not_added(s, table_name, record_id, changed_by, old_values, new_values) ==
    /\ UNCHANGED <<tables, users, seq, now>>
    /\ slot' = [slot EXCEPT ![s].pc = "done", ![s].status = 200,
                            ![s].result = record_id]

\* add_audit_log: db.add(audit_log); db.commit()
add_audit_log(s, table_name, record_id, changed_by, old_values, new_values) ==
    LET aid == seq["audit_logs"]
        row == AuditLogsDbModel(table_name, record_id, changed_by,
                                old_values, new_values)
    IN  /\ tables' = [tables EXCEPT !["audit_logs"] = @ @@ (aid :> row)]
        /\ seq' = [seq EXCEPT !["audit_logs"] = aid + 1]
        /\ now' = now + 1
        /\ UNCHANGED users
        /\ slot' = [slot EXCEPT ![s].pc = "done", ![s].status = 200,
                                ![s].result = record_id,
                                ![s].entries = @ \cup {aid}]

(***************************************************************************)
(* crud.py create_record                                                   *)
(***************************************************************************)
\* new_record = model(**data): the declarative constructor takes only
\* attributes of the class
ConstructorRaises(model, data) ==
    ~(DOMAIN data \subseteq Columns(model) \cup OtherAttributes(model))

NewRow(model, data) ==
    [c \in Columns(model) |->
        IF c \in DOMAIN data THEN data[c] ELSE ColumnDefault(model, c)]

\* db.commit() raises sqlalchemy.exc.IntegrityError: a unique or a foreign
\* key constraint is violated by `row` stored under `id`
IntegrityError(model, id, row) ==
    \/ \E c \in UniqueColumns(model) :
          /\ row[c] # NoneV
          /\ \E j \in DOMAIN tables[model] \ {id} : tables[model][j][c] = row[c]
    \/ \E c \in UserKeys(model) :
          /\ row[c] # NoneV
          /\ ~\E u \in DOMAIN users : row[c] = IntV(u)

\* lines 28-31: model(**data); db.add; db.commit; db.refresh
CreateRow(s) ==
    LET c == slot[s]
        id == seq[c.model]
        row == NewRow(c.model, c.data)
    IN  /\ c.pc = "row" /\ c.op = "create"
        /\ IF ConstructorRaises(c.model, c.data)
           THEN RaiseInTry(s, "TypeError")
           ELSE IF ~ConstraintsHold(c.model, id, row)
           THEN RaiseInTry(s, IF IntegrityError(c.model, id, row)
                              THEN "IntegrityError" ELSE "Exception")
           ELSE /\ tables' = [tables EXCEPT ![c.model] = @ @@ (id :> row)]
                /\ seq' = [seq EXCEPT ![c.model] = id + 1]
                /\ now' = now + 1
                /\ UNCHANGED users
                /\ slot' = [slot EXCEPT ![s].pc = "audit", ![s].id = id,
                                        ![s].committed = TRUE,
                                        ![s].inserted = @ \cup {id}]

\* lines 33-40: what create_record hands to add_audit_log
create_audit_values_full(c) ==
    [record_id |-> c.id, changed_by |-> c.user,
     old_values |-> c.data, new_values |-> c.data]

create_audit_values(c) ==
    [record_id |-> c.id, changed_by |-> c.user,
     old_values |-> EmptyMap, new_values |-> c.data]

\* lines 31-42: db.refresh(new_record); add_audit_log(...); return new_record
CreateAudit(s) ==
    LET c == slot[s]
        a == create_audit_values(c)
    IN  /\ c.pc = "audit" /\ c.op = "create"
        /\ IF \/ c.id \notin DOMAIN tables[c.model]
              \/ AddAuditLogRaises(c.model, a.record_id, a.changed_by,
                                   a.old_values, a.new_values)
           THEN RaiseInTry(s, "Exception")
           ELSE add_audit_log(s, c.model, a.record_id, a.changed_by,
                              a.old_values, a.new_values)

(***************************************************************************)
(* crud.py update_record and delete_record                                 *)
(***************************************************************************)
\* lines 71-76 and 117-122: the record is looked up, its columns are
\* snapshotted and passed through json_serial
ReadRecord(s) ==
    LET c == slot[s]
    IN  /\ c.pc = "read" /\ c.op \in {"update", "delete"}
        /\ IF c.id \notin DOMAIN tables[c.model]
           THEN RaiseInTry(s, "HTTPException(404)")
           ELSE LET record == tables[c.model][c.id]
                    old_values == [k \in Columns(c.model) |-> record[k]]
                IN  IF JsonRaises(old_values, TRUE)
                    THEN RaiseInTry(s, "Exception")
                    ELSE /\ slot' = [slot EXCEPT
                                ![s].pc = "row",
                                ![s].record = record,
                                ![s].old_values = JsonRoundTrip(old_values)]
                         /\ UNCHANGED <<tables, users, seq, now>>

\* The columns the flush writes: the attributes set to a value other than the
\* loaded one.
Dirty(c) ==
    {k \in DOMAIN c.data \cap Columns(c.model) : c.data[k] # c.record[k]}

\* An UPDATE that writes back every column of the record as it was read
UpdatedRow_whole_record(c, current) ==
    [k \in Columns(c.model) |->
        IF k \in DOMAIN c.data THEN c.data[k]
        ELSE IF k = "updated_at" THEN DatetimeV(now)
        ELSE c.record[k]]

\* The row the UPDATE leaves: the written columns, and updated_at from its
\* onupdate=func.now() unless it was set itself.
UpdatedRow(c, current) ==
    [k \in Columns(c.model) |->
        IF k \in Dirty(c) THEN c.data[k]
        ELSE IF k = "updated_at" /\ k \in DOMAIN current THEN DatetimeV(now)
        ELSE current[k]]

\* lines 78-81: setattr for every key of data; db.commit()
UpdateRow(s) ==
    LET c == slot[s]
    IN  /\ c.pc = "row" /\ c.op = "update"
        /\ IF Dirty(c) = {}
           THEN \* nothing to flush
                /\ slot' = [slot EXCEPT ![s].pc = "audit",
                        ![s].before = IF c.id \in DOMAIN tables[c.model]
                                      THEN tables[c.model][c.id] ELSE EmptyMap]
                /\ UNCHANGED <<tables, users, seq, now>>
           ELSE IF \/ c.id \notin DOMAIN tables[c.model]   \* StaleDataError
                   \/ ~ConstraintsHold(c.model, c.id,
                          UpdatedRow(c, tables[c.model][c.id]))
           THEN RaiseInTry(s, "Exception")
           ELSE /\ tables' = [tables EXCEPT ![c.model][c.id] =
                                 UpdatedRow(c, tables[c.model][c.id])]
                /\ now' = now + 1
                /\ UNCHANGED <<users, seq>>
                /\ slot' = [slot EXCEPT ![s].pc = "audit",
                                        ![s].committed = TRUE,
                                        ![s].before = tables[c.model][c.id]]

\* lines 84-93: what update_record hands to add_audit_log; `refreshed` is the
\* record after db.refresh
update_audit_values_full(c, refreshed) ==
    [record_id |-> c.id, changed_by |-> c.user,
     old_values |-> c.old_values,
     new_values |-> JsonRoundTrip(refreshed)]

update_audit_values(c, refreshed) ==
    [record_id |-> c.id, changed_by |-> c.user,
     old_values |-> c.old_values,
     new_values |-> JsonRoundTrip(c.data)]

\* lines 82-95: db.refresh(record); the supplied data through json_serial;
\* add_audit_log(...); return record
UpdateAudit(s) ==
    LET c == slot[s]
        a == update_audit_values(c, tables[c.model][c.id])
    IN  /\ c.pc = "audit" /\ c.op = "update"
        /\ IF c.id \notin DOMAIN tables[c.model]
           THEN RaiseInTry(s, "Exception")
           ELSE IF JsonRaises(c.data, TRUE)
           THEN \* json_serial: raise TypeError
                RaiseInTry(s, "TypeError")
           ELSE IF AddAuditLogRaises(c.model, a.record_id, a.changed_by,
                                     a.old_values, a.new_values)
           THEN RaiseInTry(s, "Exception")
           ELSE add_audit_log(s, c.model, a.record_id, a.changed_by,
                              a.old_values, a.new_values)

\* lines 124-125: db.delete(record); db.commit().  A DELETE that matches no
\* row only warns.
DeleteRow(s) ==
    LET c == slot[s]
    IN  /\ c.pc = "row" /\ c.op = "delete"
        /\ IF c.id \notin DOMAIN tables[c.model]
           THEN /\ slot' = [slot EXCEPT ![s].pc = "audit"]
                /\ UNCHANGED <<tables, users, seq, now>>
           ELSE IF Referenced(c.model, c.id)
           THEN RaiseInTry(s, "Exception")
           ELSE /\ tables' = [tables EXCEPT ![c.model] =
                                 [j \in DOMAIN @ \ {c.id} |-> @[j]]]
                /\ now' = now + 1
                /\ UNCHANGED <<users, seq>>
                /\ slot' = [slot EXCEPT ![s].pc = "audit",
                                        ![s].committed = TRUE,
                                        ![s].before = tables[c.model][c.id]]

\* lines 127-134: what delete_record hands to add_audit_log
delete_audit_values_swapped(c) ==
    [record_id |-> c.id, changed_by |-> c.user,
     old_values |-> EmptyMap, new_values |-> c.old_values]

delete_audit_values(c) ==
    [record_id |-> c.id, changed_by |-> c.user,
     old_values |-> c.old_values, new_values |-> EmptyMap]

\* lines 127-136: add_audit_log(...); return
DeleteAudit(s) ==
    LET c == slot[s]
        a == delete_audit_values(c)
    IN  /\ c.pc = "audit" /\ c.op = "delete"
        /\ IF AddAuditLogRaises(c.model, a.record_id, a.changed_by,
                                a.old_values, a.new_values)
           THEN RaiseInTry(s, "Exception")
           ELSE add_audit_log(s, c.model, a.record_id, a.changed_by,
                              a.old_values, a.new_values)

\* fetch_all_records: db.query(model).all()
fetch_all_records(model) ==
    {tables[model][j] : j \in DOMAIN tables[model]}

(***************************************************************************)
(* The record store called directly (no route in front of it)              *)
(***************************************************************************)
MaxId == 2
Names == {"A", "B"}

CreateData(user) ==
    { ("name" :> StrV("A")) @@ ("description" :> StrV("x"))
         @@ ("created_by_user" :> IntV(user)),
      ("name" :> StrV("B")) @@ ("created_by_user" :> IntV(user))
         @@ ("created_at" :> DatetimeV(0)) }

UpdateData ==
    { ("name" :> StrV("B")),
      ("name" :> StrV("A")) @@ ("description" :> StrV("y")),
      ("description" :> StrV("y")) @@ ("created_at" :> DatetimeV(0)),
      ("description" :> StrV("y")) @@ ("tags" :> SetV) }

Call(s) ==
    /\ Free(s) /\ calls < MaxCalls
    /\ calls' = calls + 1
    /\ UNCHANGED <<tables, users, seq, now>>
    /\ \E user \in {1, 2} :
          \/ \E data \in CreateData(user) :
                slot' = [slot EXCEPT ![s] =
                    CrudCall("crud", "create", "amenities", 0, data, user)]
          \/ \E id \in 1..MaxId, data \in UpdateData :
                slot' = [slot EXCEPT ![s] =
                    CrudCall("crud", "update", "amenities", id, data, user)]
          \/ \E id \in 1..MaxId :
                slot' = [slot EXCEPT ![s] =
                    CrudCall("crud", "delete", "amenities", id, EmptyMap, user)]

Step(s) ==
    \/ CreateRow(s) /\ UNCHANGED calls
    \/ CreateAudit(s) /\ UNCHANGED calls
    \/ ReadRecord(s) /\ UNCHANGED calls
    \/ UpdateRow(s) /\ UNCHANGED calls
    \/ UpdateAudit(s) /\ UNCHANGED calls
    \/ DeleteRow(s) /\ UNCHANGED calls
    \/ DeleteAudit(s) /\ UNCHANGED calls

(***************************************************************************)
(* crud.py fetch_record                                                    *)
(***************************************************************************)
\* relationship() attributes among the non-column attributes
Relationships(model) == OtherAttributes(model) \ {"to_dict"}

\* getattr(model, rel) == None: the many-to-one "user" compares its foreign
\* key with NULL, the one-to-many "users" asks that no user refers to the row
RelationIsNone(model, rel, id) ==
    IF rel = "user" THEN tables[model][id]["created_by_user"] = NoneV
    ELSE ~Referenced(model, id)

\* lines 179-186 with records[0] for several matches
fetch_found_first(model, filter_params, records) ==
    IF records = {} THEN {[status |-> 404, id |-> 0]}
    ELSE {[status |-> 200, id |-> CHOOSE j \in records :
                                     \A i \in records : j <= i]}

\* lines 179-186: records = query.all(); 404 for none, 300 for several,
\* records[0] for one
fetch_found(model, filter_params, records) ==
    IF records = {} THEN {[status |-> 404, id |-> 0]}
    ELSE IF Cardinality(records) > 1 THEN {[status |-> 300, id |-> 0]}
    ELSE {[status |-> 200, id |-> j] : j \in records}

\* fetch_record: the outcomes of the call, each a status and the id of the
\* record returned.  hasattr(model, attr) is true of every class attribute;
\* comparing a relationship with a value that is not None raises inside the
\* loop (500); comparing a method gives the Python value False, which
\* query.filter either takes as WHERE false or refuses, by SQLAlchemy version.
\* With an unknown key and a raising key the order of the mapping decides.
fetch_record(model, filter_params) ==
    LET keys == DOMAIN filter_params
        unknown == keys \ (Columns(model) \cup OtherAttributes(model))
        raising == {k \in keys \cap Relationships(model) :
                       filter_params[k] # NoneV}
        methods == keys \cap (OtherAttributes(model) \ Relationships(model))
        records ==
            {j \in DOMAIN tables[model] :
                /\ \A k \in keys \cap Columns(model) :
                      tables[model][j][k] = filter_params[k]
                /\ \A k \in keys \cap Relationships(model) :
                      RelationIsNone(model, k, j)}
    IN  IF unknown # {} \/ raising # {}
        THEN {[status |-> 400, id |-> 0] : k \in unknown}
                \cup {[status |-> 500, id |-> 0] : k \in raising}
        ELSE IF methods # {}
        THEN {[status |-> 404, id |-> 0], [status |-> 500, id |-> 0]}
        ELSE fetch_found(model, filter_params, records)

\* The filter_params the model sends.
Filters ==
    { EmptyMap,
      ("name" :> StrV("A")),
      ("created_by_user" :> IntV(1)),
      ("name" :> StrV("B")) @@ ("created_by_user" :> IntV(1)),
      ("description" :> NoneV),
      ("user" :> NoneV),
      ("user" :> IntV(1)),
      ("to_dict" :> IntV(1)),
      ("nope" :> IntV(1)) }

\* fetch_record(db, AmenitiesDbModel, filter_params) is called.
FetchCall(s) ==
    /\ Free(s) /\ calls < MaxCalls
    /\ calls' = calls + 1
    /\ UNCHANGED <<tables, users, seq, now>>
    /\ \E filter_params \in Filters :
       \E o \in fetch_record("amenities", filter_params) :
          slot' = [slot EXCEPT ![s] =
             [IdleSlot EXCEPT
                 !.pc = "done", !.route = "crud", !.op = "fetch",
                 !.model = "amenities", !.data = filter_params,
                 !.status = o.status, !.result = o.id,
                 !.record = IF o.id = 0 THEN EmptyMap
                            ELSE tables["amenities"][o.id],
                 !.serial = calls + 1]]

(***************************************************************************)
(* security.py: the credential and the role gates                          *)
(***************************************************************************)
Tokens == {"bad", "root@x", "admin@x", "user@x"}

\* get_user: the user row with that email, 0 for None
get_user(email) ==
    IF \E u \in DOMAIN users : users[u].email_id = email
    THEN CHOOSE u \in DOMAIN users : users[u].email_id = email
    ELSE 0

\* access_token_expiry_minutes
access_token_expiry_minutes == 30

\* MaxNow bounds the clock of the credential checks.
MaxNow == 3

\* The tokens presented to get_current_user_from_token alone: those above,
\* two that expire at time 2, a forged one, one without "sub", and one whose
\* subject is not registered at first.
AuthTokens ==
    Tokens \cup {"admin@x/exp2", "admin@x/forged", "forged/exp2", "nosub",
                 "new@x"}

\* jwt.decode, signature: "bad" is not a JWT, the forged ones are signed with
\* another key.
jwt_well_formed(token) == token # "bad"
jwt_signed(token) == token \notin {"bad", "admin@x/forged", "forged/exp2"}

\* create_access_token: jwt_data = {"sub": email, "exp": expire}, the tokens of
\* the three users issued at time 1; "None" stands for no "sub" at all.
jwt_payload(token) ==
    CASE token \in {"admin@x/exp2", "admin@x/forged"} ->
            [sub |-> "admin@x",
             exp |-> IF token = "admin@x/exp2" THEN 2
                     ELSE 1 + access_token_expiry_minutes]
      [] token = "forged/exp2" -> [sub |-> "root@x", exp |-> 2]
      [] token = "nosub" ->
            [sub |-> "None", exp |-> 1 + access_token_expiry_minutes]
      [] OTHER -> [sub |-> token, exp |-> 1 + access_token_expiry_minutes]

\* jwt.decode: the exception it raises, "none" when it returns the payload.
\* The signature is verified before the claims; "exp" is rejected when it is
\* before the current time.
jwt_decode(token) ==
    IF ~jwt_well_formed(token) \/ ~jwt_signed(token) THEN "JWTError"
    ELSE IF jwt_payload(token).exp < now THEN "ExpiredSignatureError"
    ELSE "none"

\* get_current_user_from_token with its except clauses in the other order:
\* ExpiredSignatureError is a JWTError
token_exception_generic(token) ==
    IF jwt_decode(token) # "none" THEN "credentials_exception"
    ELSE IF jwt_payload(token).sub = "None" THEN "credentials_exception"
    ELSE IF get_user(jwt_payload(token).sub) = 0 THEN "credentials_exception"
    ELSE "none"

\* get_current_user_from_token: the exception it raises, "none" when it
\* returns the user
token_exception(token) ==
    IF jwt_decode(token) = "ExpiredSignatureError"
    THEN "token_expired_exception"
    ELSE IF jwt_decode(token) = "JWTError" THEN "credentials_exception"
    ELSE IF jwt_payload(token).sub = "None" THEN "credentials_exception"
    ELSE IF get_user(jwt_payload(token).sub) = 0 THEN "credentials_exception"
    ELSE "none"

\* get_current_user_from_token reading the payload without verifying it
get_current_user_from_token_unverified(token) ==
    IF ~jwt_well_formed(token) \/ jwt_payload(token).sub = "None" THEN 0
    ELSE get_user(jwt_payload(token).sub)

\* get_current_user_from_token: the id of the user, 0 when it raises
\* credentials_exception or token_expired_exception (401)
get_current_user_from_token(token) ==
    IF token_exception(token) # "none" THEN 0
    ELSE get_user(jwt_payload(token).sub)

\* db_session.query(RolesDbModel).filter(name == ...).one_or_none(): the id of
\* the role, 0 for None
RoleNamed(name) ==
    IF \E r \in DOMAIN tables["roles"] : tables["roles"][r]["name"] = StrV(name)
    THEN CHOOSE r \in DOMAIN tables["roles"] :
            tables["roles"][r]["name"] = StrV(name)
    ELSE 0

\* get_role_ids without its check of the endUser role
get_role_ids_raises_unless_end_user ==
    \/ RoleNamed("admin") = 0
    \/ RoleNamed("superAdmin") = 0

\* get_role_ids raises HTTPException(500) when one of the three is missing
get_role_ids_raises ==
    \/ RoleNamed("admin") = 0
    \/ RoleNamed("superAdmin") = 0
    \/ RoleNamed("endUser") = 0

\* super_admin_or_admin_required with only admin_role_id in the admitted set
super_admin_or_admin_required_admin_only(user) ==
    IF get_role_ids_raises THEN 500
    ELSE IF users[user].role_id = RoleNamed("admin")
    THEN 0
    ELSE 403

\* super_admin_or_admin_required: the status it ends the request with, 0 when
\* it returns current_user
super_admin_or_admin_required(user) ==
    IF get_role_ids_raises THEN 500
    ELSE IF users[user].role_id \in {RoleNamed("admin"), RoleNamed("superAdmin")}
    THEN 0
    ELSE 403

\* super_admin_required deciding by the role the user had when the token was
\* issued (role id 2 of the initial roles table)
super_admin_required_cached(user) ==
    IF RoleNamed("superAdmin") = 0 THEN 500
    ELSE IF users[user].role_id # 2 THEN 403
    ELSE 0

\* super_admin_required: super_admin_role.id on None is an AttributeError,
\* answered 500 by generic_exception_handler
super_admin_required(user) ==
    IF RoleNamed("superAdmin") = 0 THEN 500
    ELSE IF users[user].role_id # RoleNamed("superAdmin") THEN 403
    ELSE 0

\* is_super_admin: super_admin_role.id on None is an AttributeError (500);
\* otherwise it returns True or False and the request goes on either way
is_super_admin(user) ==
    IF RoleNamed("superAdmin") = 0 THEN 500 ELSE 0

\* admin_required admitting the superAdmin role as well
admin_required_or_super_admin(user) ==
    IF RoleNamed("admin") = 0 THEN 500
    ELSE IF users[user].role_id \notin {RoleNamed("admin"), RoleNamed("superAdmin")}
    THEN 403
    ELSE 0

\* admin_required: admin_role.id on None is an AttributeError (500)
admin_required(user) ==
    IF RoleNamed("admin") = 0 THEN 500
    ELSE IF users[user].role_id # RoleNamed("admin") THEN 403
    ELSE 0

(***************************************************************************)
(* routes/*.py                                                             *)
(***************************************************************************)
Routes == {"create_amenity", "update_amenity", "delete_amenity",
           "update_role", "delete_role",
           "update_audit_log", "delete_audit_log",
           "get_amenities", "get_audit_logs"}

\* The routes declared with
\* description="Can only be accessed by super admin or admin".
DeclaredAdminOnly == Routes \ {"update_role", "delete_role"}

\* routes/roles_router.py: the routes that change the roles table
RoleRoutes == {"add_a_new_role", "update_role", "delete_role"}

\* dependencies=[Depends(...)] of the route
GateOf(route) ==
    CASE route \in {"add_a_new_role", "update_role"} -> "super_admin_required"
      [] route = "delete_role" -> "is_super_admin"
      [] route \in {"get_amenities", "get_audit_logs"} -> "none"
      [] OTHER -> "super_admin_or_admin_required"

ModelOf(route) ==
    CASE route \in {"create_amenity", "update_amenity", "delete_amenity",
                     "get_amenities"}
            -> "amenities"
      [] route \in RoleRoutes -> "roles"
      [] route \in {"update_audit_log", "delete_audit_log", "get_audit_logs"}
            -> "audit_logs"

OpOf(route) ==
    CASE route \in {"create_amenity", "add_a_new_role"} -> "create"
      [] route \in {"update_amenity", "update_role", "update_audit_log"}
            -> "update"
      [] route \in {"delete_amenity", "delete_role", "delete_audit_log"}
            -> "delete"
      [] route \in {"get_amenities", "get_audit_logs"} -> "fetch_all"

\* The status the gate of the route ends the request with, 0 when it admits.
GateStatus(route, token) ==
    LET user == get_current_user_from_token(token)
    IN  IF GateOf(route) = "none" THEN 0
        ELSE IF user = 0 THEN 401
        ELSE CASE GateOf(route) = "super_admin_required"
                    -> super_admin_required(user)
               [] GateOf(route) = "is_super_admin" -> is_super_admin(user)
               [] OTHER -> super_admin_or_admin_required(user)

\* The data= argument the route hands to the record store.
RouteData(route, body, user) ==
    CASE route = "create_amenity" ->
            ("name" :> body["name"]) @@ ("description" :> body["description"])
               @@ ("created_by_user" :> IntV(user))
      [] route = "update_amenity" ->
            ("name" :> body["name"]) @@ ("description" :> body["description"])
      [] route \in {"add_a_new_role", "update_role"} ->
            ("name" :> body["name"])
      [] route = "update_audit_log" ->
            ("action" :> StrV("edit")) @@ ("table_name" :> StrV("amenities"))
               @@ ("record_id" :> IntV(1)) @@ ("changed_by" :> IntV(user))
               @@ ("old_values" :> DictV) @@ ("new_values" :> DictV)
      [] OTHER -> EmptyMap

\* What the handler answers before it reaches the record store, 0 when it
\* calls it.
PreStatus(c) ==
    CASE c.route = "create_amenity" ->
            \* check_if_amenity_already_exists
            IF \E j \in DOMAIN tables["amenities"] :
                  tables["amenities"][j]["name"] = c.data["name"]
            THEN 400 ELSE 0
      [] c.route = "add_a_new_role" ->
            IF \E j \in DOMAIN tables["roles"] :
                  tables["roles"][j]["name"] = c.data["name"]
            THEN 409 ELSE 0
      [] c.route = "update_role" ->
            IF c.id \notin DOMAIN tables["roles"] THEN 404
            ELSE IF tables["roles"][c.id]["name"] = c.data["name"] THEN 409
            ELSE 0
      [] c.route = "delete_role" ->
            \* delete_record is called without current_user_id: TypeError
            IF c.id \notin DOMAIN tables["roles"] THEN 404 ELSE 500
      [] c.route \in {"get_amenities", "get_audit_logs"} -> 0
      [] OTHER ->
            IF c.id \notin DOMAIN tables[c.model] THEN 404 ELSE 0

\* The request bodies and path parameters the model sends.
AmenityBodies ==
    { ("name" :> StrV(n)) @@ ("description" :> StrV("x")) : n \in Names }
RoleBodies == { ("name" :> StrV(n)) : n \in {"guest", "superAdmin"} }
RoleIds == {1, 2, 3}

BodiesOf(route) ==
    CASE route \in {"create_amenity", "update_amenity"} -> AmenityBodies
      [] route \in {"add_a_new_role", "update_role"} -> RoleBodies
      [] OTHER -> {EmptyMap}

IdsOf(route) ==
    CASE route \in {"create_amenity", "get_amenities", "get_audit_logs",
                     "add_a_new_role"}
            -> {0}
      [] route \in {"update_role", "delete_role"} -> RoleIds
      [] OTHER -> 1..MaxId

\* A request arrives.
Request(s) ==
    /\ Free(s) /\ calls < MaxCalls
    /\ calls' = calls + 1
    /\ UNCHANGED <<tables, users, seq, now>>
    /\ \E route \in Routes, token \in Tokens :
       \E id \in IdsOf(route), body \in BodiesOf(route) :
          slot' = [slot EXCEPT ![s] =
              [IdleSlot EXCEPT !.pc = "gate", !.route = route,
                               !.op = OpOf(route), !.model = ModelOf(route),
                               !.id = id, !.data = body, !.token = token]]

\* A request to one of the routes of roles_router.py arrives.
RoleRequest(s) ==
    /\ Free(s) /\ calls < MaxCalls
    /\ calls' = calls + 1
    /\ UNCHANGED <<tables, users, seq, now>>
    /\ \E route \in RoleRoutes, token \in Tokens :
       \E id \in IdsOf(route), body \in BodiesOf(route) :
          slot' = [slot EXCEPT ![s] =
              [IdleSlot EXCEPT !.pc = "gate", !.route = route,
                               !.op = OpOf(route), !.model = ModelOf(route),
                               !.id = id, !.data = body, !.token = token]]

\* A request whose only dependency is super_admin_required or admin_required.
GateCall(s) ==
    /\ Free(s) /\ calls < MaxCalls
    /\ calls' = calls + 1
    /\ UNCHANGED <<tables, users, seq, now>>
    /\ \E token \in Tokens, gate \in {"super_admin_required", "admin_required"} :
          LET user == get_current_user_from_token(token)
              status == IF user = 0 THEN 401
                        ELSE IF gate = "admin_required" THEN admin_required(user)
                        ELSE super_admin_required(user)
          IN  slot' = [slot EXCEPT ![s] =
                 [IdleSlot EXCEPT
                     !.pc = "done", !.route = gate, !.token = token,
                     !.user = IF status = 0 THEN user ELSE 0,
                     !.status = status, !.serial = calls + 1]]

\* The route with its dependency evaluated after the body: a rejected delete
\* has already removed its record.
Gate_after_body(s) ==
    LET c == slot[s]
        status == GateStatus(c.route, c.token)
        user == get_current_user_from_token(c.token)
    IN  /\ c.pc = "gate"
        /\ UNCHANGED <<users, seq, now, calls>>
        /\ IF status # 0
           THEN /\ slot' = [slot EXCEPT ![s].pc = "done",
                                        ![s].status = status]
                /\ tables' =
                     IF c.op = "delete" /\ c.id \in DOMAIN tables[c.model]
                     THEN [tables EXCEPT ![c.model] =
                             [j \in (DOMAIN @) \ {c.id} |-> @[j]]]
                     ELSE tables
           ELSE /\ slot' = [slot EXCEPT ![s].pc = "pre", ![s].user = user,
                               ![s].data = RouteData(c.route, c.data, user)]
                /\ UNCHANGED tables

\* The dependencies of the route run before its body.
Gate(s) ==
    LET c == slot[s]
        status == GateStatus(c.route, c.token)
        user == get_current_user_from_token(c.token)
    IN  /\ c.pc = "gate"
        /\ UNCHANGED <<tables, users, seq, now, calls>>
        /\ IF status # 0
           THEN slot' = [slot EXCEPT ![s].pc = "done", ![s].status = status]
           ELSE slot' = [slot EXCEPT ![s].pc = "pre", ![s].user = user,
                            ![s].data = RouteData(c.route, c.data, user)]

\* The body of the handler up to its call of the record store.
Handler(s) ==
    LET c == slot[s]
    IN  /\ c.pc = "pre"
        /\ UNCHANGED <<tables, users, seq, now, calls>>
        /\ IF PreStatus(c) # 0
           THEN slot' = [slot EXCEPT ![s].pc = "done",
                                     ![s].status = PreStatus(c)]
           ELSE IF c.op = "fetch_all"
           THEN \* return fetch_all_records(db, model)
                slot' = [slot EXCEPT ![s].pc = "done", ![s].status = 200]
           ELSE slot' = [slot EXCEPT ![s].pc =
                            IF c.op = "create" THEN "row" ELSE "read"]

(***************************************************************************)
(* The credential check alone, registration and the clock                  *)
(***************************************************************************)
\* A request whose only dependency is get_current_user_from_token.
CurrentUser(s) ==
    /\ Free(s) /\ calls < MaxCalls
    /\ calls' = calls + 1
    /\ UNCHANGED <<tables, users, seq, now>>
    /\ \E token \in AuthTokens :
          LET user == get_current_user_from_token(token)
          IN  slot' = [slot EXCEPT ![s] =
                 [IdleSlot EXCEPT
                     !.pc = "done", !.route = "get_current_user_from_token",
                     !.token = token, !.user = user, !.serial = calls + 1,
                     !.raised = IF user = 0 THEN token_exception(token)
                                ELSE "none",
                     !.status = IF user = 0 THEN 401 ELSE 0]]

Emails == {"admin@x", "new@x"}

\* register_a_user giving the new user the role named admin
register_a_user_admin_role(s) ==
    /\ Free(s) /\ calls < MaxCalls
    /\ calls' = calls + 1
    /\ UNCHANGED <<tables, users, seq, now>>
    /\ \E email \in Emails :
          slot' = [slot EXCEPT ![s] =
             IF RoleNamed("admin") = 0
             THEN [IdleSlot EXCEPT !.pc = "done", !.route = "register_a_user",
                                   !.raised = "NoResultFound", !.status = 500]
             ELSE [IdleSlot EXCEPT !.pc = "register",
                                   !.route = "register_a_user",
                                   !.id = RoleNamed("admin"),
                                   !.data = ("email" :> StrV(email))]]

\* POST /register arrives: register_a_user looks up the endUser role with
\* .one()
register_a_user(s) ==
    /\ Free(s) /\ calls < MaxCalls
    /\ calls' = calls + 1
    /\ UNCHANGED <<tables, users, seq, now>>
    /\ \E email \in Emails :
          slot' = [slot EXCEPT ![s] =
             IF RoleNamed("endUser") = 0
             THEN [IdleSlot EXCEPT !.pc = "done", !.route = "register_a_user",
                                   !.raised = "NoResultFound", !.status = 500]
             ELSE [IdleSlot EXCEPT !.pc = "register",
                                   !.route = "register_a_user",
                                   !.id = RoleNamed("endUser"),
                                   !.data = ("email" :> StrV(email))]]

\* POST /register/role arrives: register_user_with_a_role looks the role of
\* the body up by id; no dependency guards the route
register_user_with_a_role(s) ==
    /\ Free(s) /\ calls < MaxCalls
    /\ calls' = calls + 1
    /\ UNCHANGED <<tables, users, seq, now>>
    /\ \E email \in Emails, role_id \in RoleIds \cup {0} :
          slot' = [slot EXCEPT ![s] =
             IF role_id \notin DOMAIN tables["roles"]
             THEN [IdleSlot EXCEPT !.pc = "done",
                                   !.route = "register_user_with_a_role",
                                   !.raised = "HTTPException(400)",
                                   !.status = 400]
             ELSE [IdleSlot EXCEPT !.pc = "register",
                                   !.route = "register_user_with_a_role",
                                   !.id = role_id,
                                   !.data = ("email" :> StrV(email))]]

\* register_user, lines 81-88: the email is looked up first
register_user(s) ==
    LET c == slot[s]
    IN  /\ c.pc = "register"
        /\ UNCHANGED <<tables, users, seq, now, calls>>
        /\ IF get_user(c.data["email"].v) # 0
           THEN slot' = [slot EXCEPT ![s].pc = "done", ![s].status = 400]
           ELSE slot' = [slot EXCEPT ![s].pc = "commit"]

\* register_user with a unique constraint that is not enforced
register_user_commit_no_constraint(s) ==
    LET c == slot[s]
        uid == Cardinality(DOMAIN users) + 1
    IN  /\ c.pc = "commit"
        /\ UNCHANGED <<tables, seq, now, calls>>
        /\ users' = users @@
              (uid :> [email_id |-> c.data["email"].v, role_id |-> c.id])
        /\ slot' = [slot EXCEPT ![s].pc = "done", ![s].status = 201,
                                ![s].result = uid]

\* register_user, lines 92-104: db_session.add(new_user); commit(); email_id
\* is unique
register_user_commit(s) ==
    LET c == slot[s]
        uid == Cardinality(DOMAIN users) + 1
    IN  /\ c.pc = "commit"
        /\ UNCHANGED <<tables, seq, now, calls>>
        /\ IF get_user(c.data["email"].v) # 0
           THEN /\ slot' = [slot EXCEPT ![s].pc = "done",
                                        ![s].raised = "IntegrityError",
                                        ![s].status = 500]
                /\ UNCHANGED users
           ELSE /\ users' = users @@
                     (uid :> [email_id |-> c.data["email"].v,
                              role_id |-> c.id])
                /\ slot' = [slot EXCEPT ![s].pc = "done", ![s].status = 201,
                                        ![s].result = uid]

\* QueryStatusUpdate bodies
QueryStatusBodies ==
    { ("contacted" :> BoolV(TRUE)) @@ ("resolution" :> StrV(r)) :
         r \in {"called", "sold"} }

\* The keyword arguments update_record takes, and those
\* update_query_status_post_contacting_user passes.
update_record_parameters ==
    {"db", "model", "record_id", "data", "current_user_id"}
contacted_call_keywords ==
    {"db", "model", "record_id", "update_data", "success_message",
     "changed_by"}

\* PUT /query/{query_id}/contacted: get_current_user_from_token, then the
\* call of update_record; a keyword update_record does not take is a
\* TypeError before the first statement of update_record.
update_query_status_post_contacting_user(s) ==
    /\ Free(s) /\ calls < MaxCalls
    /\ calls' = calls + 1
    /\ UNCHANGED <<tables, users, seq, now>>
    /\ \E token \in AuthTokens, query_id \in 1..MaxId :
       \E body \in QueryStatusBodies :
          LET user == get_current_user_from_token(token)
              call == [IdleSlot EXCEPT
                          !.route = "update_query_status_post_contacting_user",
                          !.op = "update", !.model = "queries",
                          !.token = token, !.id = query_id, !.data = body,
                          !.serial = calls + 1]
          IN  slot' = [slot EXCEPT ![s] =
                 IF user = 0
                 THEN [call EXCEPT !.pc = "done",
                                   !.raised = token_exception(token),
                                   !.status = 401]
                 ELSE IF contacted_call_keywords
                            \subseteq update_record_parameters
                 THEN [call EXCEPT !.pc = "read", !.user = user]
                 ELSE [call EXCEPT !.pc = "done", !.user = user,
                                   !.raised = "TypeError", !.status = 500]]

\* Time passes.
Tick ==
    /\ now < MaxNow
    /\ now' = now + 1
    /\ UNCHANGED <<tables, users, seq, slot, calls>>

(***************************************************************************)
(* Initial state: the three well-known roles and one user of each          *)
(***************************************************************************)
RoleRow(id, name) ==
    [c \in Columns("roles") |->
        CASE c = "id" -> IntV(id)
          [] c = "name" -> StrV(name)
          [] c = "description" -> NoneV
          [] OTHER -> DatetimeV(0)]

\* A query as create_query stores it: not contacted, resolution ''.
QueryRow(id) ==
    [c \in Columns("queries") |->
        CASE c = "contacted" -> BoolV(FALSE)
          [] c = "resolution" -> StrV("")
          [] c \in {"property_address_id", "amenities_id"} -> NoneV
          [] ColumnType(c) = "Integer" -> IntV(id)
          [] ColumnType(c) = "TIMESTAMP" -> DatetimeV(0)
          [] OTHER -> StrV("q")]

Init ==
    /\ tables = [m \in Models |->
                    IF m = "roles"
                    THEN (1 :> RoleRow(1, "admin"))
                      @@ (2 :> RoleRow(2, "superAdmin"))
                      @@ (3 :> RoleRow(3, "endUser"))
                    ELSE IF m = "queries" THEN (1 :> QueryRow(1))
                    ELSE [j \in {} |-> EmptyMap]]
    /\ users = (1 :> [email_id |-> "root@x", role_id |-> 2])
            @@ (2 :> [email_id |-> "admin@x", role_id |-> 1])
            @@ (3 :> [email_id |-> "user@x", role_id |-> 3])
    /\ seq = [m \in Models |->
                 IF m = "roles" THEN 4 ELSE IF m = "queries" THEN 2 ELSE 1]
    /\ now = 1
    /\ slot = [s \in Slots |-> IdleSlot]
    /\ calls = 0

NextCrud == \E s \in Slots : Call(s) \/ Step(s)

SpecCrud == Init /\ [][NextCrud]_vars

Next == \E s \in Slots : Request(s) \/ Gate(s) \/ Handler(s) \/ Step(s)

Spec == Init /\ [][Next]_vars

NextFetch == \E s \in Slots : Call(s) \/ Step(s) \/ FetchCall(s)

SpecFetch == Init /\ [][NextFetch]_vars

\* The steps of create_record and update_record, the two calls the routes
\* of roles_router.py complete (the call of delete_record in delete_role
\* raises TypeError before its first statement).
RoleStep(s) ==
    \/ CreateRow(s) /\ UNCHANGED calls
    \/ CreateAudit(s) /\ UNCHANGED calls
    \/ ReadRecord(s) /\ UNCHANGED calls
    \/ UpdateRow(s) /\ UNCHANGED calls
    \/ UpdateAudit(s) /\ UNCHANGED calls

NextRoles ==
    \E s \in Slots :
        RoleRequest(s) \/ GateCall(s) \/ Gate(s) \/ Handler(s) \/ RoleStep(s)

SpecRoles == Init /\ [][NextRoles]_vars

NextQuery ==
    \/ Tick
    \/ \E s \in Slots :
          update_query_status_post_contacting_user(s) \/ CurrentUser(s)

SpecQuery == Init /\ [][NextQuery]_vars

NextToken ==
    \/ Tick
    \/ \E s \in Slots :
          \/ CurrentUser(s)
          \/ register_a_user(s)
          \/ register_user_with_a_role(s)
          \/ register_user(s)
          \/ register_user_commit(s)

SpecToken == Init /\ [][NextToken]_vars

(***************************************************************************)
(* Properties                                                              *)
(***************************************************************************)
Done(s) == slot[s].pc = "done"

\* The record-store call of the request has raised / has returned.
CallFailed(s) == Done(s) /\ slot[s].raised # "none"
CallSucceeded(s) == Done(s) /\ slot[s].status = 200

\* The call ends in this step.
Ends(s) == slot[s].pc # "done" /\ slot'[s].pc = "done"

AuditEntry(a) == tables["audit_logs"][a]

\* C1: a create_record, update_record or delete_record call that raised has
\* added no audit entry and has committed no change of a row of its table,
\* also when it raised after its db.commit() of the row.
C1_FailedCallChangesNothing ==
    \A s \in Slots :
        CallFailed(s) => slot[s].entries = {} /\ ~slot[s].committed

\* C2: the call that returns has added exactly one audit entry, whose
\* table_name is the table of the model and whose record_id is the id of the
\* record it created, updated or deleted.
C2_OneEntryPerSuccess ==
    [][\A s \in Slots :
          (Ends(s) /\ slot'[s].status = 200) =>
             LET added == DOMAIN tables'["audit_logs"]
                             \ DOMAIN tables["audit_logs"]
             IN  /\ Cardinality(added) = 1
                 /\ slot'[s].entries = added
                 /\ \A a \in added :
                       /\ tables'["audit_logs"][a]["table_name"]
                             = StrV(slot[s].model)
                       /\ tables'["audit_logs"][a]["record_id"]
                             = IntV(slot[s].id)
                 /\ slot[s].op = "create" => slot[s].inserted = {slot[s].id}
      ]_vars

C2_Witness ==
    \E s, r \in Slots :
        /\ s # r
        /\ CallSucceeded(s) /\ slot[s].op = "update"
        /\ CallSucceeded(r) /\ slot[r].op = "delete"
        /\ slot[s].id = slot[r].id

\* C3: in no state has a call committed the change of a row while the audit
\* entry of that change is not in the audit log.
C3_RowAndAuditTogether ==
    \A s \in Slots : slot[s].committed => slot[s].entries # {}

\* C4: update_record and delete_record of an id that has no row end with 404,
\* and change nothing.
C4_MissingIdIsNotFound ==
    \A s \in Slots :
        (Done(s) /\ slot[s].raised = "HTTPException(404)") =>
            /\ slot[s].status = 404
            /\ slot[s].entries = {} /\ ~slot[s].committed

\* The loggable form of a mapping: a datetime as its ISO-8601 string, every
\* other value as it is; and the JSON text of a loggable mapping.
Loggable(m) ==
    [k \in DOMAIN m |->
        IF m[k].t = "datetime" THEN StrV("T" \o m[k].v) ELSE m[k]]
TextOf(m) == StrV(ToString(m))

C6_CreateEntry ==
    \A s \in Slots :
        (CallSucceeded(s) /\ slot[s].op = "create") =>
            /\ slot[s].inserted = {slot[s].id}
            /\ slot[s].entries # {}
            /\ \A a \in slot[s].entries :
                /\ AuditEntry(a)["old_values"] = TextOf(EmptyMap)
                /\ AuditEntry(a)["new_values"] = TextOf(slot[s].data)
                /\ AuditEntry(a)["changed_by"] = IntV(slot[s].user)
                /\ AuditEntry(a)["record_id"] = IntV(slot[s].id)

C6_Witness ==
    \E s \in Slots :
        /\ CallSucceeded(s) /\ slot[s].op = "create" /\ slot[s].user = 2
        /\ slot[s].id \in DOMAIN tables[slot[s].model]
        /\ slot[s].entries # {}

\* C7: the audit entry of a successful delete_record has for old_values the
\* snapshot of every column taken before the delete and for new_values {};
\* it keeps record_id = id, and no fetch_all_records returns the record.
C7_DeleteEntry ==
    \A s \in Slots :
        (CallSucceeded(s) /\ slot[s].op = "delete") =>
            /\ slot[s].entries # {}
            /\ \A a \in slot[s].entries :
                /\ DOMAIN slot[s].record = Columns(slot[s].model)
                /\ AuditEntry(a)["old_values"]
                      = TextOf(Loggable(slot[s].record))
                /\ AuditEntry(a)["new_values"] = TextOf(EmptyMap)
                /\ AuditEntry(a)["record_id"] = IntV(slot[s].id)
            /\ \A r \in fetch_all_records(slot[s].model) :
                  r["id"] # IntV(slot[s].id)

\* a record deleted, and another created after it
C7_Witness ==
    \E s \in Slots :
        /\ CallSucceeded(s) /\ slot[s].op = "delete"
        /\ slot[s].committed
        /\ fetch_all_records(slot[s].model) # {}

\* C8: an audit entry, once created, is never removed and none of its fields
\* ever changes, whatever the endpoints do.
C8_AuditEntriesImmutable ==
    [][\A a \in DOMAIN tables["audit_logs"] :
          /\ a \in DOMAIN tables'["audit_logs"]
          /\ tables'["audit_logs"][a] = tables["audit_logs"][a]
      ]_vars

\* C9: a request is answered 401 or 403 by its gate, before its handler and
\* the record store have run, and that step leaves every table unchanged.
C9_RejectedChangesNothing ==
    [][\A s \in Slots :
          (Ends(s) /\ slot'[s].status \in {401, 403}) =>
              /\ slot[s].pc = "gate"
              /\ ~slot'[s].committed /\ slot'[s].entries = {}
              /\ slot'[s].inserted = {}
              /\ tables' = tables /\ users' = users /\ seq' = seq
      ]_vars

\* a delete of an existing amenity rejected 403, another rejected 401
C9_Witness ==
    \E s, r \in Slots :
        /\ Done(s) /\ slot[s].status = 403 /\ slot[s].route = "delete_amenity"
        /\ slot[s].id \in DOMAIN tables["amenities"]
        /\ Done(r) /\ slot[r].status = 401 /\ slot[r].route = "delete_amenity"
        /\ slot[r].id \in DOMAIN tables["amenities"]

\* The name of the role the user row points to now, and whether a role of a
\* given name is stored.
LiveRoleName(u) ==
    IF users[u].role_id \in DOMAIN tables["roles"]
    THEN tables["roles"][users[u].role_id]["name"].v
    ELSE "none"
RoleStored(name) ==
    \E r \in DOMAIN tables["roles"] : tables["roles"][r]["name"].v = name

\* the step in which super_admin_or_admin_required decides on request s
Decides(s) ==
    /\ slot[s].pc = "gate" /\ slot'[s].pc # "gate"
    /\ GateOf(slot[s].route) = "super_admin_or_admin_required"
    /\ get_current_user_from_token(slot[s].token) # 0

C11_DeclaredRoutesRejectOthers ==
    [][\A s \in Slots :
          (Ends(s) /\ slot'[s].status = 200
              /\ slot[s].route \in DeclaredAdminOnly) =>
             LET user == get_current_user_from_token(slot[s].token)
             IN  user # 0 /\ LiveRoleName(user) # "endUser"
      ]_vars

\* the step in which the role gate of request s decides on an authenticated
\* caller
GateDecides(s) ==
    /\ slot[s].pc = "gate" /\ slot'[s].pc # "gate"
    /\ GateOf(slot[s].route) # "none"
    /\ get_current_user_from_token(slot[s].token) # 0

\* The role names a gate looks up in the roles table.
NeededRoles(gate) ==
    IF gate = "super_admin_or_admin_required"
    THEN {"admin", "superAdmin", "endUser"}
    ELSE {"superAdmin"}

\* The role names a gate admits.
AdmittedRoles(gate) ==
    CASE gate = "super_admin_or_admin_required" -> {"admin", "superAdmin"}
      [] gate = "super_admin_required" -> {"superAdmin"}
      [] gate = "is_super_admin" -> {"admin", "superAdmin", "endUser", "guest"}

\* C12: every role gate decides by the role stored for the user at the time
\* of the request: with the needed role rows stored, the caller is admitted
\* if its stored role is one the gate admits and answered 403 if not,
\* whatever was decided for the same token before.
C12_DecidedByStoredRole ==
    [][\A s \in Slots :
          GateDecides(s) =>
             LET gate == GateOf(slot[s].route)
                 role == LiveRoleName(get_current_user_from_token(slot[s].token))
             IN  (\A n \in NeededRoles(gate) : RoleStored(n)) =>
                    IF role \in AdmittedRoles(gate)
                    THEN slot'[s].pc = "pre"
                    ELSE slot'[s].pc = "done" /\ slot'[s].status = 403
      ]_vars

\* the token of the user that was stored as admin, admitted by
\* super_admin_required once the role of that user is named superAdmin
C12_Witness ==
    \E s \in Slots :
        /\ slot[s].token = "admin@x" /\ slot[s].route = "update_role"
        /\ slot[s].pc = "pre" /\ slot[s].user = 2
        /\ LiveRoleName(2) = "superAdmin"
        /\ LiveRoleName(1) = "guest"

\* C13: a gate whose needed role row is not stored answers every
\* authenticated caller 500: it neither admits nor answers a 4xx.
C13_MissingRoleIsInternalError ==
    [][\A s \in Slots :
          GateDecides(s) =>
             LET gate == GateOf(slot[s].route)
             IN  (\E n \in NeededRoles(gate) : ~RoleStored(n)) =>
                    slot'[s].pc = "done" /\ slot'[s].status = 500
      ]_vars

\* a superAdmin answered 500 by super_admin_required after the superAdmin
\* role was renamed
C13_Witness ==
    \E s \in Slots :
        /\ Done(s) /\ slot[s].status = 500 /\ slot[s].user = 0
        /\ slot[s].token = "root@x" /\ slot[s].route = "update_role"
        /\ ~RoleStored("superAdmin")

\* the step in which get_current_user_from_token answers request s
Answers(s) ==
    /\ slot'[s].serial = calls + 1 /\ calls' = calls + 1
    /\ slot'[s].route = "get_current_user_from_token"

\* C14: a correctly signed token whose "exp" is before the current time is
\* answered 401 "Token has expired", not "Could not validate credentials",
\* and no user is returned.
C14_ExpiredIsDistinguished ==
    [][\A s \in Slots :
          (Answers(s) /\ jwt_signed(slot'[s].token)
              /\ jwt_payload(slot'[s].token).exp < now) =>
             /\ slot'[s].raised = "token_expired_exception"
             /\ slot'[s].status = 401
             /\ slot'[s].user = 0
      ]_vars

\* the same token admitted before its expiry and answered Expired after it
C14_Witness ==
    \E s, r \in Slots :
        /\ slot[s].token = "admin@x/exp2" /\ slot[r].token = "admin@x/exp2"
        /\ Done(s) /\ slot[s].user = 2
        /\ Done(r) /\ slot[r].raised = "token_expired_exception"

\* C15: get_current_user_from_token returns a user only for a well-formed,
\* correctly signed, unexpired token whose subject is the email of a stored
\* user, and it returns that user; every other token is answered 401.
C15_UserOnlyForValidToken ==
    [][\A s \in Slots :
          Answers(s) =>
             LET token == slot'[s].token
                 valid ==
                    /\ jwt_well_formed(token) /\ jwt_signed(token)
                    /\ jwt_payload(token).exp >= now
                    /\ jwt_payload(token).sub # "None"
                    /\ \E u \in DOMAIN users :
                          users[u].email_id = jwt_payload(token).sub
             IN  IF valid
                 THEN /\ slot'[s].user \in DOMAIN users
                      /\ users[slot'[s].user].email_id = jwt_payload(token).sub
                      /\ slot'[s].raised = "none"
                 ELSE slot'[s].user = 0 /\ slot'[s].status = 401
      ]_vars

\* a token whose subject was not a user answered 401, and admitted once that
\* user had registered
C15_Witness ==
    \E s, r \in Slots :
        /\ slot[s].token = "new@x" /\ slot[r].token = "new@x"
        /\ Done(s) /\ slot[s].status = 401 /\ slot[s].user = 0
        /\ Done(r) /\ slot[r].user \in DOMAIN users
        /\ users[slot[r].user].email_id = "new@x"

\* the step in which fetch_record answers call s
Fetched(s) ==
    /\ slot'[s].serial = calls + 1 /\ calls' = calls + 1
    /\ slot'[s].op = "fetch"

C17_NonColumnKeyIsInvalidFilter ==
    \A s \in Slots :
        (Done(s) /\ slot[s].op = "fetch"
            /\ ~(DOMAIN slot[s].data \subseteq Columns(slot[s].model)))
        => slot[s].status = 400

\* C18: a create_record call that violates a uniqueness or referential
\* constraint ends with an outcome other than the 500 of every other
\* persistence failure.
C18_ConstraintViolationIsDistinct ==
    \A s \in Slots :
        (Done(s) /\ slot[s].op = "create"
            /\ slot[s].raised = "IntegrityError")
        => slot[s].status # ExceptHandlerStatus("Exception")

\* C19: the payloads of create_record, update_record and delete_record reach
\* add_audit_log in JSON form, so that with the record still stored the audit
\* append of a call whose values are strings, numbers, None or datetimes
\* succeeds, and the entry holds no native datetime.
C19_DatetimeNeverFailsAudit ==
    [][\A s \in Slots :
          (/\ slot[s].pc = "audit" /\ slot'[s].pc = "done"
           /\ slot[s].op = "delete"
                 \/ slot[s].id \in DOMAIN tables[slot[s].model]
           /\ \A k \in DOMAIN slot[s].data :
                 slot[s].data[k].t \in {"str", "int", "NoneType", "datetime"})
          =>
             /\ slot'[s].status = 200
             /\ \A a \in slot'[s].entries :
                   /\ tables'["audit_logs"][a]["old_values"].t = "str"
                   /\ tables'["audit_logs"][a]["new_values"].t = "str"
      ]_vars

\* C20: a call whose canonicalization fails on a value that is neither
\* JSON-representable nor a datetime ends with an outcome of its own, not
\* the 500 of every other failure.
C20_NotSerializableIsDistinct ==
    \A s \in Slots :
        (Done(s) /\ slot[s].op \in {"create", "update", "delete"}
            /\ slot[s].raised = "TypeError"
            /\ \E k \in DOMAIN slot[s].data :
                  ~JsonNative(slot[s].data[k])
                     /\ slot[s].data[k].t # "datetime")
        => slot[s].status # ExceptHandlerStatus("Exception")

\* a step of the update_record call in slot s
UpdateSteps(s) ==
    /\ slot[s].op = "update" /\ slot[s].pc \in {"read", "row", "audit"}
    /\ slot'[s] # slot[s]

\* C21: a step of update_record(id, fields) changes, in the record with that
\* id, only columns named in fields and updated_at; it changes no other
\* record of the table, adds and removes none, and changes no record of
\* another table.
C21_UpdateTouchesOnlyFields ==
    [][\A s \in Slots :
          UpdateSteps(s) =>
             LET m == slot[s].model
                 id == slot[s].id
             IN  /\ DOMAIN tables'[m] = DOMAIN tables[m]
                 /\ \A j \in DOMAIN tables[m] \ {id} :
                       tables'[m][j] = tables[m][j]
                 /\ id \in DOMAIN tables[m] =>
                       \A k \in Columns(m) \ (DOMAIN slot[s].data
                                                 \cup {"updated_at"}) :
                          tables'[m][id][k] = tables[m][id][k]
                 /\ \A t \in Models \ {m} :
                       \A j \in DOMAIN tables[t] :
                          /\ j \in DOMAIN tables'[t]
                          /\ tables'[t][j] = tables[t][j]
                 /\ users' = users
      ]_vars

\* two updates of one record have both succeeded, the one of the name alone
\* and the one of the description, and each column keeps what its update wrote
C21_Witness ==
    \E s, r \in Slots :
        /\ CallSucceeded(s) /\ slot[s].op = "update" /\ slot[s].committed
        /\ DOMAIN slot[s].data = {"name"}
        /\ CallSucceeded(r) /\ slot[r].op = "update" /\ slot[r].committed
        /\ "name" \notin DOMAIN slot[r].data
        /\ slot[r].id = slot[s].id
        /\ slot[s].id \in DOMAIN tables[slot[s].model]
        /\ tables[slot[s].model][slot[s].id]["name"] = slot[s].data["name"]
        /\ tables[slot[s].model][slot[s].id]["description"]
              = slot[r].data["description"]

\* C22: when an update_record call commits its row after another
\* update_record call on the same record has committed its own, the snapshot
\* it will log as old_values is the record as the first commit left it, and
\* the record then holds every value the second call supplied.
C22_SecondUpdateSeesFirst ==
    [][\A s, r \in Slots :
          (/\ s # r
           /\ slot[s].op = "update" /\ slot[s].pc = "row"
           /\ slot'[s].pc = "audit"
           /\ slot[r].op = "update" /\ slot[r].pc \in {"audit", "done"}
           /\ slot[r].raised = "none" /\ slot[r].committed
           /\ slot[r].model = slot[s].model /\ slot[r].id = slot[s].id
           /\ slot[s].id \in DOMAIN tables[slot[s].model])
          =>
             LET m == slot[s].model
                 id == slot[s].id
             IN  /\ slot[s].record = tables[m][id]
                 /\ \A k \in DOMAIN slot[s].data \cap Columns(m) :
                       tables'[m][id][k] = slot[s].data[k]
      ]_vars

\* A registration request answers 201 in this step / is answered in this step.
Registers(s) ==
    /\ slot[s].pc \in {"register", "commit"} /\ slot'[s].pc = "done"

\* C23: every committed insert, update or delete of a row of a managed table
\* has an audit entry: the user row a registration has committed is named by
\* an entry of the audit log with table_name users.
C23_EveryMutationAudited ==
    \A s \in Slots :
        (/\ Done(s) /\ slot[s].status = 201
         /\ slot[s].route \in {"register_a_user", "register_user_with_a_role"})
        => \E a \in DOMAIN tables["audit_logs"] :
              /\ AuditEntry(a)["table_name"] = StrV("users")
              /\ AuditEntry(a)["record_id"] = IntV(slot[s].result)

\* C24: no two users share an email, also when two registrations of one
\* email run side by side; a registration that finds its email taken, at its
\* lookup or at its commit, is answered with an error and leaves the users
\* as they were.
C24_UniqueEmail ==
    [][/\ \A u, v \in DOMAIN users' :
             users'[u].email_id = users'[v].email_id => u = v
       /\ \A s \in Slots :
             (Registers(s) /\ get_user(slot[s].data["email"].v) # 0)
             => /\ slot'[s].status \in {400, 500}
                /\ users' = users
      ]_vars

\* Two registrations of one new email that both passed the lookup: one has
\* created the user, the other was stopped by the unique constraint.
C24_Witness ==
    \E s, r \in Slots :
        /\ s # r
        /\ Done(s) /\ slot[s].status = 201
        /\ Done(r) /\ slot[r].raised = "IntegrityError"
        /\ slot[r].data = slot[s].data
        /\ Cardinality({u \in DOMAIN users :
              users[u].email_id = slot[s].data["email"].v}) = 1

\* C25: the role_id of a user is the one its registration gave it (the id of
\* the endUser role for POST /register) and no step changes it or removes the
\* user; a user has one role_id.
C25_RoleSetOnce ==
    [][/\ \A u \in DOMAIN users :
             u \in DOMAIN users' /\ users'[u].role_id = users[u].role_id
       /\ \A s \in Slots :
             (Registers(s) /\ slot'[s].status = 201)
             => /\ DOMAIN users' = DOMAIN users \cup {slot'[s].result}
                /\ slot'[s].result \notin DOMAIN users
                /\ users'[slot'[s].result].role_id \in DOMAIN tables["roles"]
                /\ slot[s].route = "register_a_user" =>
                      users'[slot'[s].result].role_id = RoleNamed("endUser")
      ]_vars

\* A user registered as superAdmin whose email a later POST /register named:
\* the user keeps the role.
C25_Witness ==
    \E s, r \in Slots :
        /\ s # r
        /\ Done(s) /\ slot[s].status = 201
        /\ slot[s].route = "register_user_with_a_role"
        /\ Done(r) /\ slot[r].status = 400
        /\ slot[r].route = "register_a_user"
        /\ slot[r].data = slot[s].data
        /\ users[slot[s].result].role_id = RoleNamed("superAdmin")
        /\ RoleNamed("endUser") # RoleNamed("superAdmin")

\* the step in which super_admin_required or admin_required, called as the
\* only dependency of request s, decides on an authenticated caller
SingleGateDecides(s) ==
    /\ slot'[s].serial = calls + 1 /\ calls' = calls + 1
    /\ slot'[s].route \in {"super_admin_required", "admin_required"}
    /\ get_current_user_from_token(slot'[s].token) # 0

\* The role name a single-role gate asks for.
RoleOfGate(gate) ==
    IF gate = "admin_required" THEN "admin" ELSE "superAdmin"

C27_RoleRoutesSuperAdminOnly ==
    [][\A s \in Slots :
          (/\ GateDecides(s) /\ slot[s].route \in RoleRoutes
           /\ RoleStored("superAdmin")
           /\ LiveRoleName(get_current_user_from_token(slot[s].token))
                 # "superAdmin")
          => slot'[s].pc = "done" /\ slot'[s].status = 403
      ]_vars

\* C28: roles named endUser, admin and superAdmin are stored in every state.
C28_WellKnownRolesPersist ==
    \A n \in {"endUser", "admin", "superAdmin"} : RoleStored(n)

\* The entry a create_record call adds has no old values, the entry a
\* delete_record call adds has no new values.
IsCreateEntry(a) == AuditEntry(a)["old_values"] = StrV(JsonText(EmptyMap))
IsDeleteEntry(a) == AuditEntry(a)["new_values"] = StrV(JsonText(EmptyMap))

\* C29: the audit entries of one record are in the order of its row commits
\* (entry ids grow in the order of the appends): the entry of its create is
\* the first of them, and none follows the entry of its delete.
C29_AuditOrderIsCommitOrder ==
    \A a, b \in DOMAIN tables["audit_logs"] :
        (/\ a < b
         /\ AuditEntry(a)["table_name"] = AuditEntry(b)["table_name"]
         /\ AuditEntry(a)["record_id"] = AuditEntry(b)["record_id"])
        => ~IsDeleteEntry(a) /\ ~IsCreateEntry(b)

\* C30: the contacted-status endpoint, called with a valid token for a
\* stored query, is answered 200, has set contacted and resolution of that
\* query to the values of the body and left its other columns as they were,
\* and has added one audit entry, whose changed_by is the id of the caller.
C30_ContactedStatusUpdates ==
    [][\A s \in Slots :
          (/\ slot'[s].serial = calls + 1 /\ calls' = calls + 1
           /\ slot'[s].route = "update_query_status_post_contacting_user"
           /\ get_current_user_from_token(slot'[s].token) # 0
           /\ slot'[s].id \in DOMAIN tables["queries"])
          =>
             LET id == slot'[s].id
                 added == DOMAIN tables'["audit_logs"]
                             \ DOMAIN tables["audit_logs"]
             IN  /\ slot'[s].status = 200
                 /\ \A k \in Columns("queries") \ {"updated_at"} :
                       tables'["queries"][id][k] =
                          IF k \in DOMAIN slot'[s].data THEN slot'[s].data[k]
                          ELSE tables["queries"][id][k]
                 /\ Cardinality(added) = 1
                 /\ \A a \in added :
                       tables'["audit_logs"][a]["changed_by"] =
                          IntV(get_current_user_from_token(slot'[s].token))
      ]_vars

====
